---- MODULE Spec2Model ----
(***************************************************************************)
(* A model of git_viz: the identity store (user_manager.py, UserManager)   *)
(* and the date filter of the log pipeline (core.py, GitVizProcessor).     *)
(*                                                                         *)
(* Spec        the identity store: construction of the process-wide        *)
(*             singleton, add_user_mapping, set_user_avatar, reset.        *)
(* SpecFilter  _filter_log_by_date, run line by line over a generated log. *)
(***************************************************************************)
EXTENDS Integers, Sequences, FiniteSets, TLC

VARIABLES
    instance,       \* UserManager._instance: 0 is None, otherwise the object's identity
    created,        \* how many UserManager objects __new__ has created
    initialized,    \* self._initialized
    config_dir,     \* self.config_dir
    data_dir,       \* self.data_dir
    user_mappings,  \* self.user_mappings: the dict, as its items in insertion order
    config_files,   \* the file system: <config_dir>/users.yaml of every config dir
    avatar_files,   \* the file system: the files of <data_dir>/avatars of every data dir
    existing_dirs,  \* the file system: the directories mkdir has made
    last_call,      \* the call that has just returned, with its outcome
    prev_call,      \* the call that returned before last_call
    ncalls,         \* how many calls have returned
    mapped,         \* history: per config dir, the name last passed to add_user_mapping
    start_date,     \* GitVizProcessor.start_date
    end_date,       \* GitVizProcessor.end_date
    utc_offset,     \* the machine's local time zone, in seconds east of UTC
    repo_name,      \* _filter_log_by_date's repo_name
    log_file,       \* the lines of log_file, each as its fields between the '|'s
    filtered_log,   \* the file <temp_dir>/<repo_name>_filtered.log
    filter_pc,      \* where _filter_log_by_date is: "idle", "loop" or "done"
    line_no,        \* the line the loop of _filter_log_by_date is at
    returned_log,   \* the file _filter_log_by_date returns
    input_is_output, \* whether the log_file argument is the very file filtered_log
    pass_no,        \* 1 for a filter run on a generated log, 2 for one on its output
    first_output,   \* the lines the first run returned, for the second to compare
    temp_files,     \* the file system: the files of self.temp_dir, by name
    all_logs,       \* the list of log files that is combined, whole or in two parts
    split_at,       \* how many of all_logs the first _combine_logs call is given
    log_files,      \* _combine_logs' log_files
    output_file,    \* _combine_logs' output_file
    combine_idx,    \* the log file the loop of _combine_logs is at
    combine_pc,     \* where _combine_logs is: "idle", "loop" or "done"
    combine_call,   \* 1 for the first _combine_logs call, 2 for the one on its output
    repository_paths, \* process_repositories' repository_paths
    run_pc,         \* where the run is, from "start" to "end"
    temp_dir_exists, \* the file system: whether self.temp_dir exists
    repo_idx,       \* the repository the loop of process_repositories is at
    valid_logs,     \* process_repositories' valid_logs
    any_repos_attempted, \* process_repositories' any_repos_attempted
    warnings,       \* the warnings issued by warnings.warn, in order
    render_calls,   \* how often _generate_visualization has been called
    raised,         \* the exception that has left process_repositories or the scope
    cli_outcome,    \* how the caller's statement ended
    caller,         \* who runs the processor: cli.visualize or a library caller
    repo_results,   \* what became of each repository the loop has passed, in order
    similar_users,  \* what the last suggest_similar_users call returned
    render_pc,      \* where _generate_visualization is
    gource_state,   \* the gource process: "none", "running" or "exited"
    gource_left,    \* the frames gource has still to write to its stdout
    gource_returncode, \* the exit status of gource, once it has exited
    ffmpeg_state,   \* the ffmpeg process: "none", "running" or "exited"
    ffmpeg_returncode, \* the exit status of ffmpeg, once it has exited
    pipe,           \* the frames in the pipe from gource's stdout
    render_raised   \* the exception _generate_visualization has raised

storeVars == <<instance, created, initialized, config_dir, data_dir, user_mappings,
               config_files, avatar_files, existing_dirs, last_call, prev_call, ncalls,
               mapped>>

filterVars == <<start_date, end_date, utc_offset, repo_name, log_file, filtered_log,
                filter_pc, line_no, returned_log, input_is_output, pass_no,
                first_output>>

combineVars == <<all_logs, split_at, log_files, output_file, combine_idx, combine_pc,
                 combine_call>>

runVars == <<repository_paths, run_pc, temp_dir_exists, repo_idx, valid_logs,
             any_repos_attempted, warnings, render_calls, raised, cli_outcome, caller,
             repo_results>>

suggestVars == <<similar_users>>

renderVars == <<render_pc, gource_state, gource_left, gource_returncode, ffmpeg_state,
                ffmpeg_returncode, pipe, render_raised>>

pipelineVars == <<temp_files, combineVars, runVars, suggestVars, renderVars>>

vars == <<storeVars, filterVars, pipelineVars>>

----------------------------------------------------------------------------
(* Bounds and input domains *)

\* the number of calls made on the store in one behaviour
MaxCalls == 5

\* Python's None, for a str-valued argument or field
None == "None"

\* git names handed to add_user_mapping; SortedGitNames is the same set in
\* Python's str order, the order yaml.dump writes the keys in
GitNames == {"jdoe", "janedoe"}

SortedGitNames == <<"janedoe", "jdoe">>

\* a git name that no call ever maps
UnknownName == "unknown.user"

CanonicalNames == {"Jane Doe", "J. Doe"}

\* the config_dir and data_dir arguments of UserManager(...)
ConfigDirArgs == {None, "/tmp/config"}

DataDirArgs == {None, "/tmp/data"}

\* avatar sources: two images, a file that is no image, and a path that does not exist
AvatarSources == {"face.png", "logo.png", "notes.txt", "nonexistent.png"}

ExistingSources == {"face.png", "logo.png", "notes.txt"}

ImageSources == {"face.png", "logo.png"}

----------------------------------------------------------------------------
(* Paths *)

\* user_config_dir("git-viz") and user_data_dir("git-viz")
user_config_dir == "~/.config/git-viz"

user_data_dir == "~/.local/share/git-viz"

ConfigDirs == {user_config_dir} \cup (ConfigDirArgs \ {None})

DataDirs == {user_data_dir} \cup (DataDirArgs \ {None})

\* hashlib.md5(canonical_name.encode()).hexdigest()
Md5Hex(name) ==
    CASE name = "Jane Doe" -> "1c272047233576d77a9b9a1acfdf741c"
      [] name = "J. Doe"   -> "fd2fe8600e216adb3862d722337bf049"
      [] name = "jdoe"     -> "a31405d272b94e5d12e9a52a665d3bfe"
      [] name = "janedoe"  -> "a8c0d2a9d332574951a8e4a0af7d516f"

\* a mutant of AvatarFileName: the file is named after the source image
AvatarFileNameBySource(canonical_name, source) ==
    source \o ".png"

\* f"{avatar_hash}.png"
AvatarFileName(canonical_name, source) ==
    Md5Hex(canonical_name) \o ".png"

\* the avatar field of an entry: None, or str(self.avatar_dir / file)
NoAvatar == None

AvatarPath(dir, file) == dir \o "/avatars/" \o file

----------------------------------------------------------------------------
(* The mapping: a dict in insertion order *)

Entry(git_name, canonical_name, avatar) ==
    [git_name |-> git_name, canonical_name |-> canonical_name, avatar |-> avatar]

Keys(m) == {m[i].git_name : i \in 1..Len(m)}

IndexOf(m, git_name) == CHOOSE i \in 1..Len(m) : m[i].git_name = git_name

Get(m, git_name) == m[IndexOf(m, git_name)]

\* the dict as a mapping, its order forgotten (dict equality in Python)
AsDict(m) == [k \in Keys(m) |-> [canonical_name |-> Get(m, k).canonical_name,
                                 avatar |-> Get(m, k).avatar]]

\* yaml.dump(self.user_mappings, f): a block mapping with its keys sorted
\* (sort_keys=True), outer and inner: per git name, avatar then canonical_name;
\* None is written as null
YamlNull == "null"

YamlDump(m) ==
    LET present == SelectSeq(SortedGitNames, LAMBDA k : k \in Keys(m))
    IN  [i \in 1..Len(present) |->
            LET e == Get(m, present[i])
            IN  <<e.git_name,
                  <<"avatar", IF e.avatar = NoAvatar THEN YamlNull ELSE e.avatar>>,
                  <<"canonical_name", e.canonical_name>>>>]

\* yaml.safe_load(f) or {}: the dict in the document's order
YamlLoad(doc) ==
    [i \in 1..Len(doc) |->
        Entry(doc[i][1], doc[i][3][2],
              IF doc[i][2][2] = YamlNull THEN NoAvatar ELSE doc[i][2][2])]

NoFile == [exists |-> FALSE, doc |-> <<>>]

File(doc) == [exists |-> TRUE, doc |-> doc]

\* a mutant of SaveUserMappings: the mutation is not written
SaveNothing(files, dir, m) == files

\* _save_user_mappings: a full rewrite of <config_dir>/users.yaml
SaveUserMappings(files, dir, m) ==
    [files EXCEPT ![dir] = File(YamlDump(m))]

\* a mutant of get_canonical_name: an unknown name has no canonical name
get_canonical_name_strict(m, git_name) ==
    IF git_name \in Keys(m) THEN Get(m, git_name).canonical_name ELSE None

\* get_canonical_name
get_canonical_name(m, git_name) ==
    IF git_name \in Keys(m) THEN Get(m, git_name).canonical_name ELSE git_name

----------------------------------------------------------------------------
(* The calls *)

Call(op, a1, a2, result) == [op |-> op, a1 |-> a1, a2 |-> a2, result |-> result]

Returned(call) ==
    /\ last_call' = call
    /\ prev_call' = last_call
    /\ ncalls' = ncalls + 1

\* the state the constructor builds when it (re)initializes
LoadedMappings(files, dir) ==
    IF files[dir].exists THEN YamlLoad(files[dir].doc) ELSE <<>>

\* a mutant of NeedsInit: a constructed store is never initialized again
NeedsInitOnce(cd, dd) == ~initialized

\* __init__, lines 26-29: whether this call (re)initializes the store
NeedsInit(cd, dd) == ((cd # None \/ dd # None) /\ initialized) \/ ~initialized

\* UserManager(config_dir=cd, data_dir=dd): __new__, then __init__
Construct(cd, dd) ==
    /\ ncalls < MaxCalls
    /\ IF instance = 0
         THEN /\ instance' = created + 1
              /\ created' = created + 1
         ELSE UNCHANGED <<instance, created>>
    /\ LET fresh == instance = 0
           init == IF fresh THEN TRUE ELSE NeedsInit(cd, dd)
           cdir == IF cd # None THEN cd ELSE user_config_dir
           ddir == IF dd # None THEN dd ELSE user_data_dir
       IN  IF init
             THEN /\ config_dir' = cdir
                  /\ data_dir' = ddir
                  \* mkdir(parents=True) of config_dir and of data_dir/avatars
                  /\ existing_dirs' = existing_dirs \cup {cdir, ddir}
                  /\ user_mappings' = LoadedMappings(config_files, cdir)
                  /\ config_files' =
                        IF config_files[cdir].exists
                          THEN config_files
                          ELSE SaveUserMappings(config_files, cdir, <<>>)
                  /\ initialized' = TRUE
             ELSE UNCHANGED <<config_dir, data_dir, existing_dirs, user_mappings,
                              config_files, initialized>>
    /\ Returned(Call("UserManager", cd, dd, "ok"))
    /\ UNCHANGED <<avatar_files, mapped>>
    /\ UNCHANGED <<filterVars, pipelineVars>>

\* UserManager.reset(), or the process ending and another one starting
Reset ==
    /\ ncalls < MaxCalls
    /\ instance # 0
    /\ instance' = 0
    /\ initialized' = FALSE
    /\ Returned(Call("reset", None, None, "ok"))
    /\ UNCHANGED <<created, config_dir, data_dir, user_mappings, config_files,
                   avatar_files, existing_dirs, mapped>>
    /\ UNCHANGED <<filterVars, pipelineVars>>

\* a mutant of MappingsAfterAdd: an existing entry is replaced by a fresh one
MappingsAfterAddFresh(m, git_name, canonical_name) ==
    IF git_name \notin Keys(m)
      THEN Append(m, Entry(git_name, canonical_name, NoAvatar))
      ELSE [m EXCEPT ![IndexOf(m, git_name)] = Entry(git_name, canonical_name, NoAvatar)]

\* add_user_mapping, lines 76-82: the dict after the call
MappingsAfterAdd(m, git_name, canonical_name) ==
    IF git_name \notin Keys(m)
      THEN Append(m, Entry(git_name, canonical_name, NoAvatar))
      ELSE [m EXCEPT ![IndexOf(m, git_name)].canonical_name = canonical_name]

\* add_user_mapping(git_name, canonical_name)
add_user_mapping(git_name, canonical_name) ==
    /\ ncalls < MaxCalls
    /\ instance # 0
    /\ LET m == MappingsAfterAdd(user_mappings, git_name, canonical_name)
       IN  /\ user_mappings' = m
           /\ config_files' = SaveUserMappings(config_files, config_dir, m)
    /\ mapped' = [mapped EXCEPT ![config_dir][git_name] = canonical_name]
    /\ Returned(Call("add_user_mapping", git_name, canonical_name, "ok"))
    /\ UNCHANGED <<instance, created, initialized, config_dir, data_dir,
                   avatar_files, existing_dirs>>
    /\ UNCHANGED <<filterVars, pipelineVars>>

\* a mutant of SourceMissing: the existence check is dropped
SourceNeverMissing(avatar_path) == FALSE

\* line 93: not avatar_path.exists()
SourceMissing(avatar_path) == avatar_path \notin ExistingSources

\* a mutant of MappingsAfterAvatar: every entry gets the avatar
MappingsAfterAvatarAll(m, canonical_name, new_avatar_path) ==
    [i \in 1..Len(m) |-> [m[i] EXCEPT !.avatar = new_avatar_path]]

\* set_user_avatar, lines 117-119: the dict after the loop
MappingsAfterAvatar(m, canonical_name, new_avatar_path) ==
    [i \in 1..Len(m) |->
        IF m[i].canonical_name = canonical_name
          THEN [m[i] EXCEPT !.avatar = new_avatar_path]
          ELSE m[i]]

\* set_user_avatar(canonical_name, avatar_path)
set_user_avatar(canonical_name, avatar_path) ==
    /\ ncalls < MaxCalls
    /\ instance # 0
    /\ IF SourceMissing(avatar_path)
         THEN \* line 94: raise FileNotFoundError
              /\ Returned(Call("set_user_avatar", canonical_name, avatar_path,
                               "FileNotFoundError"))
              /\ UNCHANGED <<user_mappings, config_files, avatar_files>>
         ELSE IF avatar_path \notin ImageSources
         THEN \* line 101: Image.open raises before anything is written
              /\ Returned(Call("set_user_avatar", canonical_name, avatar_path,
                               "UnidentifiedImageError"))
              /\ UNCHANGED <<user_mappings, config_files, avatar_files>>
         ELSE LET file == AvatarFileName(canonical_name, avatar_path)
                  new_avatar_path == AvatarPath(data_dir, file)
                  m == MappingsAfterAvatar(user_mappings, canonical_name,
                                           new_avatar_path)
              IN  /\ avatar_files' = [avatar_files EXCEPT
                                        ![data_dir] = @ \cup {file}]
                  /\ user_mappings' = m
                  /\ config_files' = SaveUserMappings(config_files, config_dir, m)
                  /\ Returned(Call("set_user_avatar", canonical_name, avatar_path, "ok"))
    /\ UNCHANGED <<instance, created, initialized, config_dir, data_dir,
                   existing_dirs, mapped>>
    /\ UNCHANGED <<filterVars, pipelineVars>>

----------------------------------------------------------------------------
(* The identity store's specification *)

StoreInit ==
    /\ instance = 0
    /\ created = 0
    /\ initialized = FALSE
    /\ config_dir = None
    /\ data_dir = None
    /\ user_mappings = <<>>
    /\ config_files = [d \in ConfigDirs |-> NoFile]
    /\ avatar_files = [d \in DataDirs |-> {}]
    /\ existing_dirs = {}
    /\ last_call = Call("none", None, None, "ok")
    /\ prev_call = Call("none", None, None, "ok")
    /\ ncalls = 0
    /\ mapped = [d \in ConfigDirs |-> [g \in GitNames |-> None]]

\* the directory names of the repositories of a run
RepoDirNames == {"alpha", "beta"}

\* lines 77, 83 and 138: the files a run makes in its temp_dir
GeneratedLog(name) == name \o ".log"

FilteredLog(name) == name \o "_filtered.log"

CombinedLog == "combined.log"

\* a file a caller of _combine_logs combines a part of the logs into
PartLog == "part.log"

TempNames ==
    {GeneratedLog(n) : n \in RepoDirNames} \cup {FilteredLog(n) : n \in RepoDirNames}
        \cup {CombinedLog, PartLog}

\* line 58: tempfile.mkdtemp() makes an empty directory
NoTempFiles == [n \in TempNames |-> NoFile]

\* no _generate_visualization call is under way
RenderIdle ==
    /\ render_pc = "idle"
    /\ gource_state = "none"
    /\ gource_left = 0
    /\ gource_returncode = 0
    /\ ffmpeg_state = "none"
    /\ ffmpeg_returncode = 0
    /\ pipe = 0
    /\ render_raised = None

\* no _combine_logs call is under way
CombineIdle ==
    /\ all_logs = <<>>
    /\ split_at = 0
    /\ log_files = <<>>
    /\ output_file = None
    /\ combine_idx = 0
    /\ combine_pc = "idle"
    /\ combine_call = 1

\* no run is under way
RunIdle ==
    /\ repository_paths = <<>>
    /\ run_pc = "start"
    /\ temp_dir_exists = FALSE
    /\ repo_idx = 0
    /\ valid_logs = <<>>
    /\ any_repos_attempted = FALSE
    /\ warnings = <<>>
    /\ render_calls = 0
    /\ raised = None
    /\ cli_outcome = None
    /\ caller = None
    /\ repo_results = <<>>

PipelineIdle ==
    /\ temp_files = NoTempFiles
    /\ CombineIdle
    /\ RunIdle
    /\ similar_users = <<>>
    /\ RenderIdle

\* no processor is filtering
FilterIdle ==
    /\ start_date = None
    /\ end_date = None
    /\ utc_offset = 0
    /\ repo_name = None
    /\ log_file = <<>>
    /\ filtered_log = NoFile
    /\ filter_pc = "idle"
    /\ line_no = 0
    /\ returned_log = None
    /\ input_is_output = FALSE
    /\ pass_no = 1
    /\ first_output = <<>>

Init == StoreInit /\ FilterIdle /\ PipelineIdle

Next ==
    \/ \E cd \in ConfigDirArgs, dd \in DataDirArgs : Construct(cd, dd)
    \/ Reset
    \/ \E g \in GitNames, c \in CanonicalNames : add_user_mapping(g, c)
    \/ \E c \in CanonicalNames, s \in AvatarSources : set_user_avatar(c, s)

Spec == Init /\ [][Next]_vars

----------------------------------------------------------------------------
(* The date filter: GitVizProcessor._filter_log_by_date *)

\* the number of lines of a generated log
MaxLogLen == 3

\* the dates a processor is constructed with
Dates == {"2021-01-01", "2021-01-02"}

\* days from 1970-01-01 to the date datetime.strptime(date_str, "%Y-%m-%d") parses
DaysSinceEpoch(date_str) ==
    CASE date_str = "2021-01-01" -> 18628
      [] date_str = "2021-01-02" -> 18629

\* the local time zones the filter is run in: UTC and UTC+1
UtcOffsets == {0, 3600}

\* convert_to_timestamp: the naive datetime is local midnight, and
\* int(dt.timestamp()) is its epoch second
convert_to_timestamp(date_str) == DaysSinceEpoch(date_str) * 86400 - utc_offset

\* float('-inf') and float('inf'), and a finite bound
Unbounded == [finite |-> FALSE, value |-> 0]

Bound(value) == [finite |-> TRUE, value |-> value]

\* lines 89-90
start_timestamp ==
    IF start_date # None THEN Bound(convert_to_timestamp(start_date)) ELSE Unbounded

end_timestamp ==
    IF end_date # None THEN Bound(convert_to_timestamp(end_date)) ELSE Unbounded

\* float(text): the value as whole seconds and tenths, or ValueError
ValueError == [ok |-> FALSE, whole |-> 0, tenths |-> 0]

Float(whole, tenths) == [ok |-> TRUE, whole |-> whole, tenths |-> tenths]

ParseFloat(text) ==
    CASE text = "1609459199"   -> Float(1609459199, 0)
      [] text = "1609459200"   -> Float(1609459200, 0)
      [] text = "1609459200.5" -> Float(1609459200, 5)
      [] text = "1609545600"   -> Float(1609545600, 0)
      [] OTHER                 -> ValueError

\* start_timestamp <= timestamp, an int or -inf against a float
LowerLeq(bound, timestamp) ==
    ~bound.finite \/ bound.value <= timestamp.whole

\* timestamp <= end_timestamp, a float against an int or inf
LeqUpper(timestamp, bound) ==
    \/ ~bound.finite
    \/ timestamp.whole < bound.value
    \/ (timestamp.whole = bound.value /\ timestamp.tenths = 0)

\* the lines a generated log is made of: line.split('|') of each
LogLines ==
    { <<"1609459199", "jdoe", "A", "a.txt">>,
      <<"1609459200", "jdoe", "A", "test.txt">>,
      <<"1609459200.5", "unknown.user", "M", "test.txt">>,
      <<"1609545600", "janedoe", "D", "a.txt">>,
      <<"not-a-number", "jdoe", "A", "a.txt">>,
      <<"1609459200", "jdoe", "A">>,
      <<"">> }

RepoNames == {"test_repo"}

\* a mutant of KeepsLine: a timestamp that does not parse counts as 0
KeepsLineUnparsed(line, lower, upper) ==
    LET timestamp == ParseFloat(line[1])
    IN  /\ LowerLeq(lower, timestamp)
        /\ LeqUpper(timestamp, upper)

\* lines 97-107: whether the loop writes the line: float(line.split('|')[0]) does
\* not raise and lies in the closed range
KeepsLine(line, lower, upper) ==
    LET timestamp == ParseFloat(line[1])
    IN  /\ timestamp.ok
        /\ LowerLeq(lower, timestamp)
        /\ LeqUpper(timestamp, upper)

\* line 102: what output_file.write(line) appends for a kept line
WrittenLine(line, repo) == line

\* a mutant of NoDateFiltering: the log is filtered whatever the dates
AlwaysDateFiltering(start, end) == FALSE

\* line 86: not self.start_date and not self.end_date
NoDateFiltering(start, end) == start = None /\ end = None

\* lines 83-95: no bound, return log_file; otherwise open log_file to read and
\* filtered_log to write, which truncates it: when both are one file, the input
\* has no line left
FilterStart ==
    /\ filter_pc = "idle"
    /\ IF NoDateFiltering(start_date, end_date)
         THEN /\ returned_log' = "log_file"
              /\ filter_pc' = "done"
              /\ UNCHANGED <<filtered_log, line_no, log_file>>
         ELSE /\ filtered_log' = File(<<>>)
              /\ log_file' = (IF input_is_output THEN <<>> ELSE log_file)
              /\ line_no' = 1
              /\ filter_pc' = "loop"
              /\ UNCHANGED returned_log
    /\ UNCHANGED <<start_date, end_date, utc_offset, repo_name, input_is_output,
                   pass_no, first_output>>
    /\ UNCHANGED <<storeVars, pipelineVars>>

\* lines 96-107: one pass of the loop
FilterLine ==
    /\ filter_pc = "loop"
    /\ line_no <= Len(log_file)
    /\ LET line == log_file[line_no]
       IN  filtered_log' =
              IF KeepsLine(line, start_timestamp, end_timestamp)
                THEN File(Append(filtered_log.doc, WrittenLine(line, repo_name)))
                ELSE filtered_log
    /\ line_no' = line_no + 1
    /\ UNCHANGED <<start_date, end_date, utc_offset, repo_name, log_file, filter_pc,
                   returned_log, input_is_output, pass_no, first_output>>
    /\ UNCHANGED <<storeVars, pipelineVars>>

\* line 109: the input is exhausted, return filtered_log
FilterReturn ==
    /\ filter_pc = "loop"
    /\ line_no > Len(log_file)
    /\ filter_pc' = "done"
    /\ returned_log' = "filtered_log"
    /\ UNCHANGED <<start_date, end_date, utc_offset, repo_name, log_file, filtered_log,
                   line_no, input_is_output, pass_no, first_output>>
    /\ UNCHANGED <<storeVars, pipelineVars>>

\* the lines of the file _filter_log_by_date has returned
ReturnedLines ==
    IF returned_log = "filtered_log" THEN filtered_log.doc ELSE log_file

\* _filter_log_by_date(returned, repo_name) on the file the first run returned,
\* with the same dates: by the same processor, whose filtered_log is that file
\* when the first run wrote one, or by another processor, whose temp_dir is new
FilterAgain(same_processor) ==
    /\ filter_pc = "done"
    /\ pass_no = 1
    /\ pass_no' = 2
    /\ first_output' = ReturnedLines
    /\ log_file' = ReturnedLines
    /\ input_is_output' = (same_processor /\ returned_log = "filtered_log")
    /\ filtered_log' = (IF same_processor THEN filtered_log ELSE NoFile)
    /\ filter_pc' = "idle"
    /\ line_no' = 0
    /\ returned_log' = None
    /\ UNCHANGED <<start_date, end_date, utc_offset, repo_name>>
    /\ UNCHANGED <<storeVars, pipelineVars>>

\* the logs of at most n lines
Logs(n) == UNION {[1..k -> LogLines] : k \in 0..n}

\* the date arguments a processor may be constructed with: the dates, none, the
\* empty string, a date without leading zeros, a date of the future, and a word
DateArgs == Dates \cup {None, "", "2021-1-1", "2999-01-01", "invalid-date"}

\* datetime.strptime(date_str, "%Y-%m-%d"): the date as days from 1970-01-01, or
\* ValueError; %m and %d take one digit or two
StrptimeError == [ok |-> FALSE, days |-> 0]

Strptime(date_str) ==
    CASE date_str \in Dates       -> [ok |-> TRUE, days |-> DaysSinceEpoch(date_str)]
      [] date_str = "2021-1-1"    -> [ok |-> TRUE, days |-> 18628]
      [] date_str = "2999-01-01"  -> [ok |-> TRUE, days |-> 375835]
      [] OTHER                    -> StrptimeError

\* line 40: the day of datetime.now(), 2026-11-03
Today == 20760

\* `if start_date`: the argument is neither None nor the empty string
Truthy(arg) == arg \notin {None, ""}

\* __init__, lines 36-52: no ValueError is raised. Without a truthy date nothing
\* is parsed; otherwise each truthy date parses, the start date is not after
\* now, and the end date is not before the start date
ValidDates(start, end) ==
    (Truthy(start) \/ Truthy(end)) =>
        /\ Truthy(start) => (Strptime(start).ok /\ Strptime(start).days <= Today)
        /\ Truthy(end) => Strptime(end).ok
        /\ (Truthy(start) /\ Truthy(end)) => Strptime(end).days >= Strptime(start).days

\* a store that UserManager() has constructed and, possibly, that has mapped jdoe
StoreWith(m) ==
    /\ instance = 1
    /\ created = 1
    /\ initialized = TRUE
    /\ config_dir = user_config_dir
    /\ data_dir = user_data_dir
    /\ user_mappings = m
    /\ config_files = [d \in ConfigDirs |->
                         IF d = user_config_dir THEN File(YamlDump(m)) ELSE NoFile]
    /\ avatar_files = [d \in DataDirs |-> {}]
    /\ existing_dirs = {user_config_dir, user_data_dir}
    /\ last_call = (IF m = <<>>
                      THEN Call("UserManager", None, None, "ok")
                      ELSE Call("add_user_mapping", m[1].git_name,
                                m[1].canonical_name, "ok"))
    /\ prev_call = (IF m = <<>>
                      THEN Call("none", None, None, "ok")
                      ELSE Call("UserManager", None, None, "ok"))
    /\ ncalls = Len(m) + 1
    /\ mapped = [d \in ConfigDirs |-> [g \in GitNames |->
                    IF d = user_config_dir /\ g \in Keys(m)
                      THEN Get(m, g).canonical_name
                      ELSE None]]

FilterInit ==
    /\ \E m \in {<<>>, <<Entry("jdoe", "Jane Doe", NoAvatar)>>} : StoreWith(m)
    /\ start_date \in Dates \cup {None}
    /\ end_date \in Dates \cup {None}
    /\ ValidDates(start_date, end_date)
    /\ utc_offset \in UtcOffsets
    /\ repo_name \in RepoNames
    /\ log_file \in Logs(MaxLogLen)
    /\ filtered_log = NoFile
    /\ filter_pc = "idle"
    /\ line_no = 0
    /\ returned_log = None
    /\ input_is_output = FALSE
    /\ pass_no = 1
    /\ first_output = <<>>
    /\ PipelineIdle

FilterNext ==
    \/ FilterStart
    \/ FilterLine
    \/ FilterReturn
    \/ \E same_processor \in BOOLEAN : FilterAgain(same_processor)

SpecFilter == FilterInit /\ [][FilterNext]_vars

----------------------------------------------------------------------------
(* The suggestions: UserManager.suggest_similar_users and cli.map *)

\* the names suggest_similar_users is asked about: the git names, one of them in
\* other case, two parts of them and a name unlike them
QueryNames == GitNames \cup {"JDoe", "jdo", "jane", "bob.smith"}

\* str.lower()
Lower(name) == IF name = "JDoe" THEN "jdoe" ELSE name

\* len(name)
Length(name) ==
    CASE name = "jdoe" -> 4
      [] name = "janedoe" -> 7
      [] name = "jdo" -> 3
      [] name = "jane" -> 4
      [] name = "bob.smith" -> 9

\* the sum of the sizes of SequenceMatcher(None, a, b).get_matching_blocks()
MatchingSize(a, b) ==
    CASE a = "jdoe" /\ b = "jdoe" -> 4
      [] a = "jdoe" /\ b = "janedoe" -> 4
      [] a = "janedoe" /\ b = "jdoe" -> 4
      [] a = "janedoe" /\ b = "janedoe" -> 7
      [] a = "jdo" /\ b = "jdoe" -> 3
      [] a = "jdo" /\ b = "janedoe" -> 3
      [] a = "jane" /\ b = "jdoe" -> 2
      [] a = "jane" /\ b = "janedoe" -> 4
      [] a = "bob.smith" /\ b = "jdoe" -> 1
      [] a = "bob.smith" /\ b = "janedoe" -> 1

\* lines 134-135: SequenceMatcher(None, a.lower(), b.lower()).ratio(), which is
\* 2.0 * matches / total, as the two integers
similarity(a, b) ==
    [matches |-> 2 * MatchingSize(Lower(a), Lower(b)),
     total |-> Length(Lower(a)) + Length(Lower(b))]

\* a mutant of AboveThreshold: a ratio of 0.6 counts
AtOrAboveThreshold(ratio) == 10 * ratio.matches >= 6 * ratio.total

\* line 139: ratio > 0.6
AboveThreshold(ratio) == 10 * ratio.matches > 6 * ratio.total

\* lines 137-142: the keys of the dict, in its order, that are similar
SimilarUsers(m, git_name) ==
    LET names == [i \in 1..Len(m) |-> m[i].git_name]
    IN  SelectSeq(names, LAMBDA existing_name :
                            AboveThreshold(similarity(git_name, existing_name)))

\* suggest_similar_users(git_name)
suggest_similar_users(git_name) ==
    /\ ncalls < MaxCalls
    /\ instance # 0
    /\ similar_users' = SimilarUsers(user_mappings, git_name)
    /\ Returned(Call("suggest_similar_users", git_name, None, "ok"))
    /\ UNCHANGED <<instance, created, initialized, config_dir, data_dir, user_mappings,
                   config_files, avatar_files, existing_dirs, mapped>>
    /\ UNCHANGED <<filterVars, temp_files, combineVars, runVars, renderVars>>

\* cli.py lines 61-75, `git-viz users map git_name canonical_name` with the
\* answer to click.confirm: UserManager() returns the store as it is; with
\* similar names and the answer no the command returns, otherwise it maps
map(git_name, canonical_name, confirm) ==
    /\ ncalls < MaxCalls
    /\ instance # 0
    /\ LET similar == SimilarUsers(user_mappings, git_name)
           m == MappingsAfterAdd(user_mappings, git_name, canonical_name)
       IN  /\ similar_users' = similar
           /\ IF similar # <<>> /\ ~confirm
                THEN /\ Returned(Call("map", git_name, canonical_name, "declined"))
                     /\ UNCHANGED <<user_mappings, config_files, mapped>>
                ELSE /\ user_mappings' = m
                     /\ config_files' = SaveUserMappings(config_files, config_dir, m)
                     /\ mapped' = [mapped EXCEPT ![config_dir][git_name] = canonical_name]
                     /\ Returned(Call("map", git_name, canonical_name, "mapped"))
    /\ UNCHANGED <<instance, created, initialized, config_dir, data_dir,
                   avatar_files, existing_dirs>>
    /\ UNCHANGED <<filterVars, temp_files, combineVars, runVars, renderVars>>

SuggestInit ==
    /\ StoreWith(<<>>)
    /\ FilterIdle
    /\ PipelineIdle

SuggestNext ==
    \/ \E g \in GitNames, c \in CanonicalNames : add_user_mapping(g, c)
    \/ \E q \in QueryNames : suggest_similar_users(q)
    \/ \E g \in GitNames, c \in CanonicalNames, confirm \in BOOLEAN : map(g, c, confirm)

SpecSuggest == SuggestInit /\ [][SuggestNext]_vars

----------------------------------------------------------------------------
(* The combiner: GitVizProcessor._combine_logs *)

\* the number of log files handed to _combine_logs
MaxCombine == 3

\* the log files handed to _combine_logs, and what each may hold: no file, an
\* empty file, or lines (the second not in timestamp order)
CombineInputs == {GeneratedLog("alpha"), FilteredLog("alpha"), FilteredLog("beta")}

InputFiles ==
    { NoFile, File(<<>>),
      File(<< <<"1609459200", "jdoe", "A", "test.txt">> >>),
      File(<< <<"1609545600", "janedoe", "D", "a.txt">>,
              <<"1609459199", "jdoe", "A", "a.txt">> >>) }

\* a mutant of WrittenAfter: the log file's content goes before what is written
WrittenBefore(written, content) == content \o written

\* line 123: outfile.write(infile.read()) after what is already written
WrittenAfter(written, content) == written \o content

\* line 119: output_file.open('w') creates or truncates the file
CombineOpen ==
    /\ combine_pc = "idle"
    /\ output_file # None
    /\ temp_files' = [temp_files EXCEPT ![output_file] = File(<<>>)]
    /\ combine_idx' = 1
    /\ combine_pc' = "loop"
    /\ UNCHANGED <<all_logs, split_at, log_files, output_file, combine_call>>
    /\ UNCHANGED <<storeVars, filterVars, suggestVars, renderVars, runVars>>

\* lines 120-123: one pass of the loop
CombineStep ==
    /\ combine_pc = "loop"
    /\ combine_idx <= Len(log_files)
    /\ LET infile == log_files[combine_idx]
       IN  temp_files' =
              IF temp_files[infile].exists
                THEN [temp_files EXCEPT
                        ![output_file] = File(WrittenAfter(temp_files[output_file].doc,
                                                           temp_files[infile].doc))]
                ELSE temp_files
    /\ combine_idx' = combine_idx + 1
    /\ UNCHANGED <<all_logs, split_at, log_files, output_file, combine_pc, combine_call>>
    /\ UNCHANGED <<storeVars, filterVars, suggestVars, renderVars, runVars>>

\* the list is exhausted: the file is closed and _combine_logs returns
CombineReturn ==
    /\ combine_pc = "loop"
    /\ combine_idx > Len(log_files)
    /\ combine_pc' = "done"
    /\ UNCHANGED <<all_logs, split_at, log_files, output_file, combine_idx, combine_call>>
    /\ UNCHANGED <<temp_files, storeVars, filterVars, suggestVars, renderVars, runVars>>

\* _combine_logs([part] + rest, combined) after _combine_logs(first, part)
CombineRest ==
    /\ combine_pc = "done"
    /\ combine_call = 1
    /\ combine_call' = 2
    /\ log_files' = <<PartLog>> \o SubSeq(all_logs, split_at + 1, Len(all_logs))
    /\ output_file' = CombinedLog
    /\ combine_idx' = 0
    /\ combine_pc' = "idle"
    /\ UNCHANGED <<all_logs, split_at>>
    /\ UNCHANGED <<temp_files, storeVars, filterVars, suggestVars, renderVars, runVars>>

\* the lists of at most n log files
LogFileLists(n) == UNION {[1..k -> CombineInputs] : k \in 0..n}

CombineInit ==
    /\ StoreWith(<<>>)
    /\ FilterIdle
    /\ RunIdle
    /\ similar_users = <<>>
    /\ RenderIdle
    /\ temp_files \in {f \in [TempNames -> InputFiles] :
                          \A n \in TempNames \ CombineInputs : f[n] = NoFile}
    /\ all_logs \in LogFileLists(MaxCombine)
    /\ split_at \in 0..Len(all_logs)
    /\ log_files = SubSeq(all_logs, 1, split_at)
    /\ output_file = PartLog
    /\ combine_idx = 0
    /\ combine_pc = "idle"
    /\ combine_call = 1

CombineNext ==
    \/ CombineOpen
    \/ CombineStep
    \/ CombineReturn
    \/ CombineRest

SpecCombine == CombineInit /\ [][CombineNext]_vars

----------------------------------------------------------------------------
(* The run: cli.visualize and GitVizProcessor.process_repositories *)

\* the number of repositories of a run
MaxRepos == 2

\* the paths a run is given: two repositories of one directory name, one of
\* another, and a path that does not exist
RepoPaths == {"/x/alpha", "/y/alpha", "/x/beta", "/gone/beta"}

\* line 145: repo.exists()
PathExists(repo_path) == repo_path # "/gone/beta"

\* Path(repo_path).name
PathName(repo_path) ==
    CASE repo_path = "/x/alpha"   -> "alpha"
      [] repo_path = "/y/alpha"   -> "alpha"
      [] repo_path = "/x/beta"    -> "beta"
      [] repo_path = "/gone/beta" -> "beta"

\* a file that only the repository at repo_path has
RepoFile(repo_path) ==
    CASE repo_path = "/x/alpha"   -> "/x_alpha.txt"
      [] repo_path = "/y/alpha"   -> "/y_alpha.txt"
      [] repo_path = "/x/beta"    -> "/x_beta.txt"
      [] repo_path = "/gone/beta" -> "/gone_beta.txt"

\* what gource may write for the repository: nothing, a commit of the last second
\* of 2020 or one of the first second of 2021
GourceLogs(repo_path) ==
    { <<>>,
      << <<"1609459199", "jdoe", "A", RepoFile(repo_path)>> >>,
      << <<"1609459200", "jdoe", "A", RepoFile(repo_path)>> >> }

AllGourceLogs == UNION {GourceLogs(repo_path) : repo_path \in RepoPaths}

\* how run_command(["gource", ...]) may end: it raises RuntimeError, or returns
\* with the log written or without
GourceOutcomes == {"failed", "written", "unwritten"}

\* how _generate_visualization may end: it returns, or raises RuntimeError for
\* the generator or for the encoder
RenderOutcomes == {"ok", "Gource", "FFmpeg"}

\* who runs a processor: cli.visualize, or code using the class in a with block
Callers == {"visualize", "library"}

\* _filter_log_by_date, lines 96-107, as a whole: the kept lines as written
FilteredLines(doc, repo) ==
    LET kept == SelectSeq(doc, LAMBDA line : KeepsLine(line, start_timestamp, end_timestamp))
    IN  [i \in 1..Len(kept) |-> WrittenLine(kept[i], repo)]

Warning(kind, about) == <<kind, about>>

\* cli.py lines 36-38: visualize without directories exits before it constructs
VisualizeNoDirectories ==
    /\ run_pc = "start"
    /\ caller = "visualize"
    /\ repository_paths = <<>>
    /\ cli_outcome' = "exit 1"
    /\ run_pc' = "end"
    /\ UNCHANGED <<repository_paths, temp_dir_exists, repo_idx, valid_logs,
                   any_repos_attempted, warnings, render_calls, raised, caller,
                   repo_results>>
    /\ UNCHANGED <<temp_files, combineVars, storeVars, filterVars, suggestVars, renderVars>>

\* GitVizProcessor(start_date, end_date, output_file): lines 36-52 raise ValueError
\* for an end date before the start date, line 57 gets the store that cli.py
\* line 10 has constructed, line 58 makes the temp_dir
ProcessorInit ==
    /\ run_pc = "start"
    /\ ~(caller = "visualize" /\ repository_paths = <<>>)
    /\ IF ValidDates(start_date, end_date)
         THEN /\ temp_dir_exists' = TRUE
              /\ temp_files' = NoTempFiles
              /\ run_pc' = "constructed"
              /\ UNCHANGED raised
         ELSE /\ raised' = "ValueError"
              /\ run_pc' = "raised"
              /\ UNCHANGED <<temp_dir_exists, temp_files>>
    /\ UNCHANGED <<repository_paths, repo_idx, valid_logs, any_repos_attempted,
                   warnings, render_calls, cli_outcome, caller, repo_results>>
    /\ UNCHANGED <<combineVars, storeVars, filterVars, suggestVars, renderVars>>

\* lines 60-61: __enter__, and the call of process_repositories
Enter ==
    /\ run_pc = "constructed"
    /\ run_pc' = "process"
    /\ UNCHANGED <<repository_paths, temp_dir_exists, repo_idx, valid_logs,
                   any_repos_attempted, warnings, render_calls, raised, cli_outcome,
                   caller, repo_results>>
    /\ UNCHANGED <<temp_files, combineVars, storeVars, filterVars, suggestVars, renderVars>>

\* a mutant of RejectsPaths: no list is rejected
RejectsNoPaths(paths) == FALSE

\* line 135: not repository_paths
RejectsPaths(paths) == paths = <<>>

\* lines 135-140: raise ValueError for the empty list, or set up the loop
ProcessStart ==
    /\ run_pc = "process"
    /\ IF RejectsPaths(repository_paths)
         THEN /\ raised' = "ValueError"
              /\ run_pc' = "exit"
              /\ UNCHANGED <<repo_idx, valid_logs, any_repos_attempted>>
         ELSE /\ repo_idx' = 1
              /\ valid_logs' = <<>>
              /\ any_repos_attempted' = FALSE
              /\ run_pc' = "loop"
              /\ UNCHANGED raised
    /\ UNCHANGED <<repository_paths, temp_dir_exists, warnings, render_calls,
                   cli_outcome, caller, repo_results>>
    /\ UNCHANGED <<temp_files, combineVars, storeVars, filterVars, suggestVars, renderVars>>

\* lines 143-159: one pass of the loop, for what gource does
ProcessRepo(outcome, content) ==
    /\ run_pc = "loop"
    /\ repo_idx <= Len(repository_paths)
    /\ content \in GourceLogs(repository_paths[repo_idx])
    /\ LET repo_path == repository_paths[repo_idx]
           name == PathName(repo_path)
           generated_log == GeneratedLog(name)
           generated == IF outcome = "written"
                          THEN [temp_files EXCEPT ![generated_log] = File(content)]
                          ELSE temp_files
           dated == start_date # None \/ end_date # None
           returned == IF dated THEN FilteredLog(name) ELSE generated_log
           filtered == IF dated
                         THEN [generated EXCEPT ![FilteredLog(name)] =
                                  File(FilteredLines(generated[generated_log].doc, name))]
                         ELSE generated
       IN  IF ~PathExists(repo_path)
             THEN /\ warnings' = Append(warnings, Warning("does not exist", repo_path))
                  /\ repo_results' = Append(repo_results, "missing")
                  /\ UNCHANGED <<temp_files, valid_logs, any_repos_attempted>>
             ELSE /\ any_repos_attempted' = TRUE
                  /\ IF outcome = "failed"
                       THEN /\ warnings' = Append(warnings,
                                                 Warning("error processing", repo_path))
                            /\ repo_results' = Append(repo_results, "failed")
                            /\ UNCHANGED <<temp_files, valid_logs>>
                       ELSE IF ~(generated[generated_log].exists
                                   /\ generated[generated_log].doc # <<>>)
                         THEN /\ temp_files' = generated
                              /\ repo_results' = Append(repo_results, "empty")
                              /\ UNCHANGED <<warnings, valid_logs>>
                         ELSE /\ temp_files' = filtered
                              /\ IF filtered[returned].doc # <<>>
                                   THEN /\ valid_logs' = Append(valid_logs, returned)
                                        /\ repo_results' = Append(repo_results, "valid")
                                   ELSE /\ repo_results' = Append(repo_results,
                                                                  "filtered empty")
                                        /\ UNCHANGED valid_logs
                              /\ UNCHANGED warnings
    /\ repo_idx' = repo_idx + 1
    /\ UNCHANGED <<repository_paths, run_pc, temp_dir_exists, render_calls, raised,
                   cli_outcome, caller>>
    /\ UNCHANGED <<combineVars, storeVars, filterVars, suggestVars, renderVars>>

\* a mutant of WarnsNoValidLogs: the warning is issued whenever no log is valid
WarnsWheneverNoValidLogs(attempted) == TRUE

\* line 172: elif any_repos_attempted
WarnsNoValidLogs(attempted) == attempted

\* lines 162-166 and 172-173: with valid logs, call _combine_logs; without,
\* warn if a repository was attempted, and return
HandleResults ==
    /\ run_pc = "loop"
    /\ repo_idx > Len(repository_paths)
    /\ IF valid_logs # <<>>
         THEN /\ log_files' = valid_logs
              /\ output_file' = CombinedLog
              /\ combine_idx' = 0
              /\ combine_pc' = "idle"
              /\ run_pc' = "combine"
              /\ UNCHANGED warnings
         ELSE /\ warnings' = (IF WarnsNoValidLogs(any_repos_attempted)
                                THEN Append(warnings, Warning("no valid logs", ""))
                                ELSE warnings)
              /\ run_pc' = "exit"
              /\ UNCHANGED <<log_files, output_file, combine_idx, combine_pc>>
    /\ UNCHANGED <<all_logs, split_at, combine_call>>
    /\ UNCHANGED <<repository_paths, temp_dir_exists, repo_idx, valid_logs,
                   any_repos_attempted, render_calls, raised, cli_outcome, caller,
                   repo_results>>
    /\ UNCHANGED <<temp_files, storeVars, filterVars, suggestVars, renderVars>>

\* a mutant of RendersCombined: the combined log is rendered as it is
RendersAnyCombined(combined) == TRUE

\* line 166: combined_log.exists() and combined_log.stat().st_size > 0
RendersCombined(combined) == combined.exists /\ combined.doc # <<>>

\* lines 166-169, _combine_logs having returned: go on to render, or warn
AfterCombine ==
    /\ run_pc = "combine"
    /\ combine_pc = "done"
    /\ IF RendersCombined(temp_files[CombinedLog])
         THEN /\ run_pc' = "render"
              /\ UNCHANGED warnings
         ELSE /\ warnings' = Append(warnings, Warning("combined log is empty", ""))
              /\ run_pc' = "exit"
    /\ UNCHANGED <<repository_paths, temp_dir_exists, repo_idx, valid_logs,
                   any_repos_attempted, render_calls, raised, cli_outcome, caller,
                   repo_results>>
    /\ UNCHANGED <<temp_files, combineVars, storeVars, filterVars, suggestVars, renderVars>>

\* lines 167 and 170-171: _generate_visualization(combined_log); the RuntimeError
\* it raises for a failed gource or ffmpeg is caught and becomes a warning
Render(outcome) ==
    /\ run_pc = "render"
    /\ render_calls' = render_calls + 1
    /\ warnings' = (IF outcome = "ok"
                      THEN warnings
                      ELSE Append(warnings, Warning("error during visualization", outcome)))
    /\ run_pc' = "exit"
    /\ UNCHANGED <<repository_paths, temp_dir_exists, repo_idx, valid_logs,
                   any_repos_attempted, raised, cli_outcome, caller, repo_results>>
    /\ UNCHANGED <<temp_files, combineVars, storeVars, filterVars, suggestVars, renderVars>>

\* an exception that no except clause of the scope catches, KeyboardInterrupt
\* for one, at any point of process_repositories
Interrupt ==
    /\ run_pc \in {"process", "loop", "combine", "render"}
    /\ raised' = "KeyboardInterrupt"
    /\ combine_pc' = (IF run_pc = "combine" THEN "aborted" ELSE combine_pc)
    /\ run_pc' = "exit"
    /\ UNCHANGED <<all_logs, split_at, log_files, output_file, combine_idx, combine_call>>
    /\ UNCHANGED <<repository_paths, temp_dir_exists, repo_idx, valid_logs,
                   any_repos_attempted, warnings, render_calls, cli_outcome, caller,
                   repo_results>>
    /\ UNCHANGED <<temp_files, storeVars, filterVars, suggestVars, renderVars>>

\* a mutant of ExistsAfterExit: the directory is kept when the scope fails
ExistsAfterFailedExit(exc) == exc # None

\* line 65: shutil.rmtree(self.temp_dir), whatever exc_type is
ExistsAfterExit(exc) == FALSE

\* lines 63-65: __exit__, the scope being left with or without an exception
Exit ==
    /\ run_pc = "exit"
    /\ temp_dir_exists' = ExistsAfterExit(raised)
    /\ temp_files' = (IF ExistsAfterExit(raised) THEN temp_files ELSE NoTempFiles)
    /\ run_pc' = (IF raised = None THEN "returned" ELSE "raised")
    /\ UNCHANGED <<repository_paths, repo_idx, valid_logs, any_repos_attempted,
                   warnings, render_calls, raised, cli_outcome, caller, repo_results>>
    /\ UNCHANGED <<combineVars, storeVars, filterVars, suggestVars, renderVars>>

\* the exceptions that except Exception catches
Exceptions == {"ValueError", "RuntimeError"}

\* cli.py lines 48-51: visualize reports the file saved, or, for an Exception,
\* the error and exits with 1; a library caller gets the return or the exception
CallerEnd ==
    /\ run_pc \in {"returned", "raised"}
    /\ cli_outcome' =
          IF caller = "visualize"
            THEN (IF raised = None THEN "Visualization saved"
                  ELSE IF raised \in Exceptions THEN "exit 1"
                  ELSE raised)
            ELSE (IF raised = None THEN "returned" ELSE raised)
    /\ run_pc' = "end"
    /\ UNCHANGED <<repository_paths, temp_dir_exists, repo_idx, valid_logs,
                   any_repos_attempted, warnings, render_calls, raised, caller,
                   repo_results>>
    /\ UNCHANGED <<temp_files, combineVars, storeVars, filterVars, suggestVars, renderVars>>

\* the lists of at most n paths
PathLists(n) == UNION {[1..k -> RepoPaths] : k \in 0..n}

RunInit ==
    /\ StoreWith(<<>>)
    /\ start_date \in Dates \cup {None}
    /\ end_date \in Dates \cup {None}
    /\ utc_offset = 0
    /\ repo_name = None
    /\ log_file = <<>>
    /\ filtered_log = NoFile
    /\ filter_pc = "idle"
    /\ line_no = 0
    /\ returned_log = None
    /\ input_is_output = FALSE
    /\ pass_no = 1
    /\ first_output = <<>>
    /\ temp_files = NoTempFiles
    /\ CombineIdle
    /\ repository_paths \in PathLists(MaxRepos)
    /\ caller \in Callers
    /\ run_pc = "start"
    /\ temp_dir_exists = FALSE
    /\ repo_idx = 0
    /\ valid_logs = <<>>
    /\ any_repos_attempted = FALSE
    /\ warnings = <<>>
    /\ render_calls = 0
    /\ raised = None
    /\ cli_outcome = None
    /\ repo_results = <<>>
    /\ similar_users = <<>>
    /\ RenderIdle

RunNext ==
    \/ VisualizeNoDirectories
    \/ ProcessorInit
    \/ Enter
    \/ ProcessStart
    \/ \E outcome \in GourceOutcomes, content \in AllGourceLogs :
          ProcessRepo(outcome, content)
    \/ HandleResults
    \/ CombineOpen
    \/ CombineStep
    \/ CombineReturn
    \/ AfterCombine
    \/ \E outcome \in RenderOutcomes : Render(outcome)
    \/ Interrupt
    \/ Exit
    \/ CallerEnd

SpecRun == RunInit /\ [][RunNext]_vars

\* the construction alone, for every pair of date arguments
ConstructInit ==
    /\ StoreWith(<<>>)
    /\ start_date \in DateArgs
    /\ end_date \in DateArgs
    /\ utc_offset = 0
    /\ repo_name = None
    /\ log_file = <<>>
    /\ filtered_log = NoFile
    /\ filter_pc = "idle"
    /\ line_no = 0
    /\ returned_log = None
    /\ input_is_output = FALSE
    /\ pass_no = 1
    /\ first_output = <<>>
    /\ temp_files = NoTempFiles
    /\ CombineIdle
    /\ repository_paths = <<"/x/alpha">>
    /\ caller \in Callers
    /\ run_pc = "start"
    /\ temp_dir_exists = FALSE
    /\ repo_idx = 0
    /\ valid_logs = <<>>
    /\ any_repos_attempted = FALSE
    /\ warnings = <<>>
    /\ render_calls = 0
    /\ raised = None
    /\ cli_outcome = None
    /\ repo_results = <<>>
    /\ similar_users = <<>>
    /\ RenderIdle

ConstructNext ==
    \/ ProcessorInit
    \/ Enter
    \/ CallerEnd

SpecConstruct == ConstructInit /\ [][ConstructNext]_vars

----------------------------------------------------------------------------
(* The rendering step: GitVizProcessor._generate_visualization *)

\* the frames the pipe from gource's stdout holds before a write blocks
PipeCapacity == 2

\* the most frames gource has to write
MaxFrames == 4

\* lines 220-225: subprocess.Popen(gource_cmd, stdout=PIPE, stderr=PIPE)
PopenGource(frames) ==
    /\ render_pc = "start"
    /\ gource_state' = "running"
    /\ gource_left' = frames
    /\ render_pc' = "stderr.read"
    /\ UNCHANGED <<gource_returncode, ffmpeg_state, ffmpeg_returncode, pipe, render_raised>>
    /\ UNCHANGED <<storeVars, filterVars, temp_files, combineVars, runVars, suggestVars>>

\* gource writes a frame to its stdout, which blocks while the pipe is full
GourceWrite ==
    /\ gource_state = "running"
    /\ gource_left > 0
    /\ pipe < PipeCapacity
    /\ pipe' = pipe + 1
    /\ gource_left' = gource_left - 1
    /\ UNCHANGED <<render_pc, gource_state, gource_returncode, ffmpeg_state,
                   ffmpeg_returncode, render_raised>>
    /\ UNCHANGED <<storeVars, filterVars, temp_files, combineVars, runVars, suggestVars>>

\* gource has written every frame and exits, which closes its stdout and stderr
GourceFinish(returncode) ==
    /\ gource_state = "running"
    /\ gource_left = 0
    /\ gource_state' = "exited"
    /\ gource_returncode' = returncode
    /\ UNCHANGED <<render_pc, gource_left, ffmpeg_state, ffmpeg_returncode, pipe,
                   render_raised>>
    /\ UNCHANGED <<storeVars, filterVars, temp_files, combineVars, runVars, suggestVars>>

\* gource fails before it has written every frame
GourceCrash ==
    /\ gource_state = "running"
    /\ gource_left > 0
    /\ gource_state' = "exited"
    /\ gource_returncode' = 1
    /\ UNCHANGED <<render_pc, gource_left, ffmpeg_state, ffmpeg_returncode, pipe,
                   render_raised>>
    /\ UNCHANGED <<storeVars, filterVars, temp_files, combineVars, runVars, suggestVars>>

\* lines 229-231: gource_process.stderr.read() returns at the end of file, when
\* gource has exited; poll() has then seen the exit or not yet
ReadStderr(polled) ==
    /\ render_pc = "stderr.read"
    /\ gource_state = "exited"
    /\ IF polled /\ gource_returncode # 0
         THEN /\ render_raised' = "RuntimeError"
              /\ render_pc' = "raised"
         ELSE /\ render_pc' = "Popen ffmpeg"
              /\ UNCHANGED render_raised
    /\ UNCHANGED <<gource_state, gource_left, gource_returncode, ffmpeg_state,
                   ffmpeg_returncode, pipe>>
    /\ UNCHANGED <<storeVars, filterVars, temp_files, combineVars, runVars, suggestVars>>

\* lines 233-239: subprocess.Popen(ffmpeg_cmd, stdin=gource_process.stdout, ...),
\* and the parent closes its end of the pipe
PopenFfmpeg ==
    /\ render_pc = "Popen ffmpeg"
    /\ ffmpeg_state' = "running"
    /\ render_pc' = "communicate"
    /\ UNCHANGED <<gource_state, gource_left, gource_returncode, ffmpeg_returncode, pipe,
                   render_raised>>
    /\ UNCHANGED <<storeVars, filterVars, temp_files, combineVars, runVars, suggestVars>>

\* ffmpeg reads a frame from its stdin
FfmpegRead ==
    /\ ffmpeg_state = "running"
    /\ pipe > 0
    /\ pipe' = pipe - 1
    /\ UNCHANGED <<render_pc, gource_state, gource_left, gource_returncode, ffmpeg_state,
                   ffmpeg_returncode, render_raised>>
    /\ UNCHANGED <<storeVars, filterVars, temp_files, combineVars, runVars, suggestVars>>

\* ffmpeg reads the end of file, the pipe empty and its writer gone, and exits
FfmpegFinish(returncode) ==
    /\ ffmpeg_state = "running"
    /\ pipe = 0
    /\ gource_state = "exited"
    /\ ffmpeg_state' = "exited"
    /\ ffmpeg_returncode' = returncode
    /\ UNCHANGED <<render_pc, gource_state, gource_left, gource_returncode, pipe,
                   render_raised>>
    /\ UNCHANGED <<storeVars, filterVars, temp_files, combineVars, runVars, suggestVars>>

\* ffmpeg fails before the end of its input
FfmpegCrash ==
    /\ ffmpeg_state = "running"
    /\ pipe > 0
    /\ ffmpeg_state' = "exited"
    /\ ffmpeg_returncode' = 1
    /\ UNCHANGED <<render_pc, gource_state, gource_left, gource_returncode, pipe,
                   render_raised>>
    /\ UNCHANGED <<storeVars, filterVars, temp_files, combineVars, runVars, suggestVars>>

\* line 242: ffmpeg_process.communicate() returns when ffmpeg has exited
Communicate ==
    /\ render_pc = "communicate"
    /\ ffmpeg_state = "exited"
    /\ render_pc' = "wait"
    /\ UNCHANGED <<gource_state, gource_left, gource_returncode, ffmpeg_state,
                   ffmpeg_returncode, pipe, render_raised>>
    /\ UNCHANGED <<storeVars, filterVars, temp_files, combineVars, runVars, suggestVars>>

\* lines 243-252: gource_process.wait(), then the two return codes are checked
Wait ==
    /\ render_pc = "wait"
    /\ gource_state = "exited"
    /\ IF gource_returncode # 0 \/ ffmpeg_returncode # 0
         THEN /\ render_raised' = "RuntimeError"
              /\ render_pc' = "raised"
         ELSE /\ render_pc' = "returned"
              /\ UNCHANGED render_raised
    /\ UNCHANGED <<gource_state, gource_left, gource_returncode, ffmpeg_state,
                   ffmpeg_returncode, pipe>>
    /\ UNCHANGED <<storeVars, filterVars, temp_files, combineVars, runVars, suggestVars>>

RenderInit ==
    /\ \E m \in {<<>>, <<Entry("jdoe", "Jane Doe", NoAvatar)>>} : StoreWith(m)
    /\ FilterIdle
    /\ temp_files \in {[NoTempFiles EXCEPT ![CombinedLog] = File(log)] :
                          log \in Logs(1) \ {<<>>}}
    /\ CombineIdle
    /\ RunIdle
    /\ similar_users = <<>>
    /\ render_pc = "start"
    /\ gource_state = "none"
    /\ gource_left = 0
    /\ gource_returncode = 0
    /\ ffmpeg_state = "none"
    /\ ffmpeg_returncode = 0
    /\ pipe = 0
    /\ render_raised = None

RenderNext ==
    \/ \E frames \in 0..MaxFrames : PopenGource(frames)
    \/ GourceWrite
    \/ \E returncode \in {0, 1} : GourceFinish(returncode)
    \/ GourceCrash
    \/ \E polled \in BOOLEAN : ReadStderr(polled)
    \/ PopenFfmpeg
    \/ FfmpegRead
    \/ \E returncode \in {0, 1} : FfmpegFinish(returncode)
    \/ FfmpegCrash
    \/ Communicate
    \/ Wait

\* the parent and the two processes each go on whenever they can; that a process
\* fails early is possible and never due
SpecRender ==
    /\ RenderInit
    /\ [][RenderNext]_vars
    /\ WF_vars(\E frames \in 0..MaxFrames : PopenGource(frames))
    /\ WF_vars(GourceWrite)
    /\ WF_vars(\E returncode \in {0, 1} : GourceFinish(returncode))
    /\ WF_vars(\E polled \in BOOLEAN : ReadStderr(polled))
    /\ WF_vars(PopenFfmpeg)
    /\ WF_vars(FfmpegRead)
    /\ WF_vars(\E returncode \in {0, 1} : FfmpegFinish(returncode))
    /\ WF_vars(Communicate)
    /\ WF_vars(Wait)

----------------------------------------------------------------------------
(* The identity store's properties *)

\* a call has just returned in this step
Step == ncalls' = ncalls + 1

\* the name last passed to add_user_mapping for g in config dir d, or g itself
LastMapped(d, g) ==
    IF g \in GitNames /\ mapped[d][g] # None THEN mapped[d][g] ELSE g

\* C1: whatever calls were made, get_canonical_name(g) is the canonical name last
\* mapped to g in the store's location if g was ever mapped there, and g itself,
\* unchanged, for a name that was never mapped.
CanonicalNameIsLastMapped ==
    instance # 0 =>
        \A g \in GitNames \cup {UnknownName} :
            get_canonical_name(user_mappings, g) = LastMapped(config_dir, g)

\* C1's case: jdoe was mapped twice (its avatar is still the one set for its first
\* canonical name), janedoe never.
RemappedAndUnmappedReached ==
    /\ instance # 0
    /\ last_call = Call("add_user_mapping", "jdoe", "J. Doe", "ok")
    /\ "jdoe" \in Keys(user_mappings)
    /\ Get(user_mappings, "jdoe").avatar =
            AvatarPath(data_dir, AvatarFileName("Jane Doe", "face.png"))
    /\ get_canonical_name(user_mappings, "jdoe") = "J. Doe"
    /\ "janedoe" \notin Keys(user_mappings)
    /\ get_canonical_name(user_mappings, "janedoe") = "janedoe"

\* C2: add_user_mapping(g, c) inserts g with canonical name c and no avatar when
\* g is new, and otherwise changes only g's canonical name: g's avatar and every
\* other entry stay as they were.
MapChangesOnlyItsEntry ==
    [][(Step /\ last_call'.op = "add_user_mapping") =>
        LET g == last_call'.a1
            c == last_call'.a2
        IN  /\ Keys(user_mappings') = Keys(user_mappings) \cup {g}
            /\ Get(user_mappings', g).canonical_name = c
            /\ Get(user_mappings', g).avatar =
                    IF g \in Keys(user_mappings)
                      THEN Get(user_mappings, g).avatar
                      ELSE NoAvatar
            /\ \A k \in Keys(user_mappings) \ {g} :
                    Get(user_mappings', k) = Get(user_mappings, k)]_vars

\* C2's case: an entry that carries an avatar was mapped again, beside another entry.
RemapOfEntryWithAvatarReached ==
    /\ last_call.op = "add_user_mapping"
    /\ Len(user_mappings) = 2
    /\ Get(user_mappings, last_call.a1).avatar # NoAvatar
    /\ Get(user_mappings, last_call.a1).avatar #
            AvatarPath(data_dir, AvatarFileName(last_call.a2, "face.png"))

\* C3: whenever a store exists, the document in its config dir is the in-memory
\* mapping; and the document of every config dir records the names last mapped
\* there, so a store constructed on it later observes them.
PersistedEqualsInMemory ==
    /\ instance # 0 =>
        /\ config_files[config_dir].exists
        /\ AsDict(YamlLoad(config_files[config_dir].doc)) = AsDict(user_mappings)
    /\ \A d \in ConfigDirs :
        config_files[d].exists =>
            \A g \in GitNames :
                get_canonical_name(YamlLoad(config_files[d].doc), g) = LastMapped(d, g)

\* C3's case: a second store, constructed after the first one was dropped, holds
\* the two mappings the first one made.
LaterStoreSeesMappingsReached ==
    /\ last_call.op = "UserManager"
    /\ created = 2
    /\ instance = 2
    /\ Len(user_mappings) = 2

\* the dict with no entry
EmptyDict == AsDict(<<>>)

\* C4: constructing the store again with a config_dir or a data_dir keeps the
\* singleton, sets its paths to the ones given (the platform's for one not given)
\* and reloads the mapping: it is what was persisted under the new config dir,
\* empty if nothing was, whatever was held before.
ReconfigureReloads ==
    [][(/\ Step
        /\ last_call'.op = "UserManager"
        /\ instance # 0
        /\ (last_call'.a1 # None \/ last_call'.a2 # None)) =>
        /\ instance' = instance
        /\ config_dir' = (IF last_call'.a1 # None THEN last_call'.a1 ELSE user_config_dir)
        /\ data_dir' = (IF last_call'.a2 # None THEN last_call'.a2 ELSE user_data_dir)
        /\ AsDict(user_mappings') =
                IF config_files[config_dir'].exists
                  THEN AsDict(YamlLoad(config_files[config_dir'].doc))
                  ELSE EmptyDict
        /\ config_files'[config_dir'].exists
        /\ AsDict(user_mappings') = AsDict(YamlLoad(config_files'[config_dir'].doc))]_vars

\* C4's case: the one store, holding a mapping made under the platform's config
\* dir, was re-configured to /tmp/config, where nothing is persisted.
ReconfiguredToEmptyLocationReached ==
    /\ last_call.op = "UserManager"
    /\ last_call.a1 = "/tmp/config"
    /\ created = 1
    /\ instance = 1
    /\ config_dir = "/tmp/config"
    /\ prev_call.op = "add_user_mapping"
    /\ config_files[user_config_dir].exists
    /\ config_files[user_config_dir].doc # <<>>
    /\ mapped["/tmp/config"] = [g \in GitNames |-> None]
    /\ user_mappings = <<>>

\* C5: set_user_avatar with a source that does not exist raises FileNotFoundError
\* and leaves the mapping, the persisted documents and the avatar directories as
\* they were.
MissingSourceChangesNothing ==
    [][(Step /\ last_call'.op = "set_user_avatar"
             /\ last_call'.a2 \notin ExistingSources) =>
        /\ last_call'.result = "FileNotFoundError"
        /\ UNCHANGED <<user_mappings, config_files, avatar_files>>]_vars

\* C5's case: the call failed on a store that holds an entry of that canonical name.
MissingSourceRejectedReached ==
    /\ last_call.op = "set_user_avatar"
    /\ last_call.a2 = "nonexistent.png"
    /\ last_call.result = "FileNotFoundError"
    /\ \E i \in 1..Len(user_mappings) :
            user_mappings[i].canonical_name = last_call.a1

\* C6: a successful set_user_avatar(c, source) gives every entry whose canonical
\* name is c one and the same avatar, a file of the avatar directory, and changes
\* no canonical name and no avatar of an entry with another canonical name.
AvatarSetForMatchingEntriesOnly ==
    [][(Step /\ last_call'.op = "set_user_avatar" /\ last_call'.result = "ok") =>
        LET c == last_call'.a1
        IN  /\ Len(user_mappings') = Len(user_mappings)
            /\ \E p \in {AvatarPath(data_dir, f) : f \in avatar_files'[data_dir]} :
                    \A i \in 1..Len(user_mappings) :
                        user_mappings[i].canonical_name = c =>
                            user_mappings'[i].avatar = p
            /\ \A i \in 1..Len(user_mappings) :
                    /\ user_mappings'[i].git_name = user_mappings[i].git_name
                    /\ user_mappings'[i].canonical_name = user_mappings[i].canonical_name
                    /\ user_mappings[i].canonical_name # c =>
                            user_mappings'[i].avatar = user_mappings[i].avatar]_vars

\* C6's case: the avatar was set for the canonical name of one of two entries.
AvatarSetBesideOtherNameReached ==
    /\ last_call.op = "set_user_avatar"
    /\ last_call.result = "ok"
    /\ Len(user_mappings) = 2
    /\ \E i, j \in 1..2 :
            /\ user_mappings[i].canonical_name = last_call.a1
            /\ user_mappings[i].avatar # NoAvatar
            /\ user_mappings[j].canonical_name # last_call.a1
            /\ user_mappings[j].avatar = NoAvatar

\* C7: in every reachable state, two entries that share a canonical name carry
\* the same avatar.
SharedCanonicalNameSharedAvatar ==
    \A i, j \in 1..Len(user_mappings) :
        user_mappings[i].canonical_name = user_mappings[j].canonical_name =>
            user_mappings[i].avatar = user_mappings[j].avatar

\* C8: set_user_avatar for a canonical name whose avatar the previous call has set
\* changes neither the mapping, nor the documents, nor the files of the avatar
\* directories: the one derived file is written again.
SetAvatarTwiceIsSetOnce ==
    [][(/\ Step
        /\ last_call.op = "set_user_avatar"
        /\ last_call.result = "ok"
        /\ last_call'.op = "set_user_avatar"
        /\ last_call'.result = "ok"
        /\ last_call'.a1 = last_call.a1) =>
        UNCHANGED <<user_mappings, config_files, avatar_files>>]_vars

\* C8's case: the avatar of one canonical name was set twice in a row, from two
\* different images, for an entry of that name.
AvatarSetTwiceReached ==
    /\ prev_call.op = "set_user_avatar"
    /\ prev_call.result = "ok"
    /\ last_call.op = "set_user_avatar"
    /\ last_call.result = "ok"
    /\ last_call.a1 = prev_call.a1
    /\ last_call.a2 # prev_call.a2
    /\ \E i \in 1..Len(user_mappings) :
            /\ user_mappings[i].canonical_name = last_call.a1
            /\ user_mappings[i].avatar # NoAvatar
    /\ Cardinality(avatar_files[data_dir]) = 1

----------------------------------------------------------------------------
(* The date filter's properties *)

\* the filter has run to its end with at least one bound
Filtered == filter_pc = "done" /\ returned_log = "filtered_log"

\* a well-formed line: timestamp|contributor|action|path with a numeric timestamp
WellFormed(line) == Len(line) = 4 /\ ParseFloat(line[1]).ok

\* lower <= timestamp <= upper for a line whose timestamp is numeric
InRange(line) ==
    /\ LowerLeq(start_timestamp, ParseFloat(line[1]))
    /\ LeqUpper(ParseFloat(line[1]), end_timestamp)

\* C9: with a bound supplied, the filter's output is exactly the well-formed lines
\* of the input, in order, whose timestamp lies in the closed range, a missing
\* bound being infinite.
OutputIsWellFormedLinesInRange ==
    Filtered =>
        filtered_log.doc =
            SelectSeq(log_file, LAMBDA line : WellFormed(line) /\ InRange(line))

\* the lines of the input the filter keeps, in order
KeptLines ==
    SelectSeq(log_file, LAMBDA line : KeepsLine(line, start_timestamp, end_timestamp))

\* a kept line with its contributor replaced by the canonical name and its path
\* put under the repository's name
Rewritten(line) ==
    <<line[1], get_canonical_name(user_mappings, line[2]), line[3],
      repo_name \o "/" \o line[4]>>

\* C10: every line the filter keeps is emitted with its contributor replaced by
\* get_canonical_name(contributor) and its path rewritten to <repo_name>/<path>,
\* timestamp and action as they were.
KeptLinesAreRewritten ==
    Filtered =>
        /\ Len(filtered_log.doc) = Len(KeptLines)
        /\ \A i \in 1..Len(KeptLines) :
                Len(KeptLines[i]) = 4 => filtered_log.doc[i] = Rewritten(KeptLines[i])

\* C11: a line whose timestamp is not numeric produces no output line and does
\* not end the loop: at every point of the loop the output is what the lines read
\* so far with a numeric timestamp in the range give, and the filter returns only
\* when every line has been read.
NonNumericLineIsSkipped ==
    /\ filter_pc = "loop" =>
        /\ line_no <= Len(log_file) + 1
        /\ filtered_log.doc =
              SelectSeq(SubSeq(log_file, 1, line_no - 1),
                        LAMBDA line : ParseFloat(line[1]).ok /\ InRange(line))
    /\ Filtered =>
        /\ line_no = Len(log_file) + 1
        /\ filtered_log.doc =
              SelectSeq(log_file, LAMBDA line : ParseFloat(line[1]).ok /\ InRange(line))

\* C11's case: the first line's timestamp is not numeric, and a later line of the
\* same log was kept.
LineAfterNonNumericKeptReached ==
    /\ Filtered
    /\ pass_no = 1
    /\ Len(log_file) >= 2
    /\ ~ParseFloat(log_file[1][1]).ok
    /\ Len(log_file[1]) = 4
    /\ filtered_log.doc = <<log_file[Len(log_file)]>>

\* C12: a line that has not exactly the four fields timestamp|contributor|action|path
\* produces no output line, whatever its first field: every line of the output
\* has four fields.
WrongFieldCountIsSkipped ==
    Filtered =>
        \A i \in 1..Len(filtered_log.doc) : Len(filtered_log.doc[i]) = 4

\* C13: the filter applied to the file the filter returned, with the same dates
\* and repository name, returns the lines the first application returned.
FilterIsIdempotent ==
    (pass_no = 2 /\ filter_pc = "done") => ReturnedLines = first_output

\* C24: without a start date and an end date _filter_log_by_date returns the
\* log file it was given, with every line of it as it was, the lines that do not
\* parse included, and writes no filtered file.
NoDatesPassThrough ==
    [][(filter_pc = "idle" /\ filter_pc' # "idle" /\ start_date = None /\ end_date = None) =>
          /\ filter_pc' = "done"
          /\ returned_log' = "log_file"
          /\ ReturnedLines' = log_file
          /\ filtered_log' = filtered_log
          /\ pass_no = 1 => ~filtered_log'.exists
      ]_vars

\* C24's case: a log of three lines, one of them with a timestamp that is no
\* number, has passed a filter without dates.
UnparsedLinePassedThroughReached ==
    /\ filter_pc = "done"
    /\ pass_no = 1
    /\ start_date = None
    /\ end_date = None
    /\ returned_log = "log_file"
    /\ Len(log_file) = 3
    /\ log_file[2] = <<"not-a-number", "jdoe", "A", "a.txt">>
    /\ ~filtered_log.exists

\* the epoch second of UTC midnight of the date, as a bound, or no bound
UtcMidnight(date_str) ==
    IF date_str # None THEN Bound(DaysSinceEpoch(date_str) * 86400) ELSE Unbounded

\* C25: in every time zone the bounds of a filter are the epoch seconds of UTC
\* midnight of its dates, and the lines it keeps are the ones whose timestamp
\* lies between these.
BoundsAreUtcMidnight ==
    (Filtered /\ pass_no = 1) =>
        /\ start_timestamp = UtcMidnight(start_date)
        /\ end_timestamp = UtcMidnight(end_date)
        /\ filtered_log.doc =
              SelectSeq(log_file, LAMBDA line :
                  KeepsLine(line, UtcMidnight(start_date), UtcMidnight(end_date)))

----------------------------------------------------------------------------
(* The combiner's properties *)

RECURSIVE Concatenation(_, _)
\* the contents of the files of the list that exist, one after the other
Concatenation(files, list) ==
    IF list = <<>>
      THEN <<>>
      ELSE (IF files[Head(list)].exists THEN files[Head(list)].doc ELSE <<>>)
              \o Concatenation(files, Tail(list))

\* C14: _combine_logs leaves in its output file the contents of the given log
\* files in the order given, a missing or empty one adding nothing and no line
\* moved; and combining the first files and then the result with the rest gives
\* what combining them all gives.
CombinedIsConcatenation ==
    combine_pc = "done" =>
        /\ temp_files[output_file].exists
        /\ temp_files[output_file].doc = Concatenation(temp_files, log_files)
        /\ combine_call = 2 =>
              temp_files[CombinedLog].doc = Concatenation(temp_files, all_logs)

\* C14's case: three logs, one of them missing or empty and one not in timestamp
\* order, were combined in two parts, each with a file that has lines.
CombinedInTwoPartsReached ==
    /\ combine_pc = "done"
    /\ combine_call = 2
    /\ Len(all_logs) = 3
    /\ split_at \in {1, 2}
    /\ \E i \in 1..3 : temp_files[all_logs[i]].doc = <<>>
    /\ Len(temp_files[PartLog].doc) = 2
    /\ temp_files[PartLog].doc[1][1] = "1609545600"
    /\ Len(temp_files[CombinedLog].doc) = 3

----------------------------------------------------------------------------
(* The run's properties *)

\* process_repositories has returned or raised and __exit__ is about to run
Left == run_pc = "exit"

ProcessReturned == Left /\ raised = None

\* the warnings that are of the kind
Warned(kind) == \E w \in 1..Len(warnings) : warnings[w][1] = kind

\* C15: process_repositories with an empty list raises ValueError at once: the
\* loop, the combiner and the renderer are never reached, no path is checked, no
\* warning issued and no file written in the temp_dir, and the call never returns.
EmptyListIsRejectedFirst ==
    repository_paths = <<>> =>
        /\ run_pc \notin {"loop", "combine", "render", "returned"}
        /\ Left => raised \in {"ValueError", "KeyboardInterrupt"}
        /\ repo_idx = 0
        /\ repo_results = <<>>
        /\ valid_logs = <<>>
        /\ warnings = <<>>
        /\ render_calls = 0
        /\ temp_files = NoTempFiles
        /\ combine_pc = "idle"

\* C15's case: process_repositories([]) has raised ValueError inside the scope.
EmptyListRejectedReached ==
    /\ repository_paths = <<>>
    /\ Left
    /\ raised = "ValueError"
    /\ temp_dir_exists

\* C16: when process_repositories returns, every repository of the list has been
\* processed, nothing was raised, and each one whose path is missing, whose log
\* generation failed or whose log is empty has a warning.
SkippedRepositoriesAreWarned ==
    /\ (Left /\ repo_idx > Len(repository_paths)) => raised \in {None, "KeyboardInterrupt"}
    /\ ProcessReturned =>
          /\ Len(repo_results) = Len(repository_paths)
          /\ \A i \in 1..Len(repo_results) :
                repo_results[i] \in {"missing", "failed", "empty"} =>
                    \/ \E w \in 1..Len(warnings) : warnings[w][2] = repository_paths[i]
                    \/ Warned("no valid logs")

\* C17: _generate_visualization is called at most once, after the loop has
\* passed every repository, with valid logs and a combined log that is not
\* empty; and when process_repositories returns it has been called exactly if
\* there are valid logs and the combined log is not empty, an empty combined log
\* having been reported by a warning.
RenderedOnceAfterAllRepositories ==
    [][LET combined == temp_files[CombinedLog]
           nonempty == combined.exists /\ combined.doc # <<>>
       IN  /\ render_calls' # render_calls =>
                /\ render_calls = 0
                /\ render_calls' = 1
                /\ repo_idx > Len(repository_paths)
                /\ Len(repo_results) = Len(repository_paths)
                /\ valid_logs # <<>>
                /\ nonempty
           /\ (~Left /\ ProcessReturned') =>
                /\ render_calls' = 1 <=> (valid_logs # <<>> /\ nonempty)
                /\ (valid_logs # <<>> /\ ~nonempty) =>
                      warnings' = Append(warnings, Warning("combined log is empty", ""))
      ]_vars

\* C17's case: of two repositories one gave a valid log, and the renderer has run.
RenderedAfterTwoRepositoriesReached ==
    /\ ProcessReturned
    /\ render_calls = 1
    /\ Len(repository_paths) = 2
    /\ Len(valid_logs) = 1

\* some repository the loop has passed existed
Attempted == \E i \in 1..Len(repo_results) : repo_results[i] # "missing"

\* C18: when the loop ends without a valid log, process_repositories returns
\* without raising and without rendering; if some repository existed its last
\* warning is 'no valid logs', and if none did the warnings are the ones of the
\* missing paths and no other.
NoValidLogsWarnsIffAttempted ==
    /\ (Left /\ repo_idx > Len(repository_paths) /\ valid_logs = <<>>) =>
          raised \in {None, "KeyboardInterrupt"}
    /\ (ProcessReturned /\ valid_logs = <<>>) =>
          /\ render_calls = 0
          /\ Attempted =>
                /\ warnings # <<>>
                /\ warnings[Len(warnings)] = Warning("no valid logs", "")
          /\ ~Attempted =>
                warnings = [i \in 1..Len(repository_paths) |->
                               Warning("does not exist", repository_paths[i])]

\* C18's case: a missing path and a repository with an empty log, no valid log.
MissingAndEmptyReached ==
    /\ ProcessReturned
    /\ repo_results = <<"missing", "empty">>

\* C18's other case: every path was missing.
AllMissingReached ==
    /\ ProcessReturned
    /\ repo_results = <<"missing", "missing">>

\* C19: a renderer that fails makes process_repositories raise, and visualize
\* ends with exit status 1 instead of reporting the visualization saved.
RenderFailureIsFatal ==
    Warned("error during visualization") =>
        /\ Left => raised # None
        /\ (run_pc = "end" /\ caller = "visualize") => cli_outcome # "Visualization saved"

\* C20: the temp_dir exists from the constructor's return until __exit__ runs,
\* and after __exit__, however the scope was left, it and its files are gone.
TempDirLivesForTheScope ==
    /\ run_pc \in {"constructed", "process", "loop", "combine", "render", "exit"} =>
          temp_dir_exists
    /\ run_pc \in {"start", "returned", "raised", "end"} =>
          /\ ~temp_dir_exists
          /\ temp_files = NoTempFiles

\* C20's case: the scope was interrupted after a log was written, and left.
InterruptedScopeLeftReached ==
    /\ run_pc = "raised"
    /\ raised = "KeyboardInterrupt"
    /\ valid_logs # <<>>

\* the places in the list of the repositories whose filtered log was not empty
ValidRepos ==
    SelectSeq([i \in 1..Len(repo_results) |-> i], LAMBDA i : repo_results[i] = "valid")

\* no path is twice in the list
DistinctPaths ==
    \A i, j \in 1..Len(repository_paths) :
        i # j => repository_paths[i] # repository_paths[j]

\* C26: when the logs of a list of different repositories have been combined,
\* the combined log holds, for each repository whose filtered log was not empty
\* and in the order of the list, the events of that repository, once; two
\* repositories of one directory name included.
EachRepositoryContributesOnce ==
    (run_pc = "combine" /\ combine_pc = "done" /\ DistinctPaths) =>
        LET combined == temp_files[CombinedLog].doc
        IN  /\ Len(combined) = Len(ValidRepos)
            /\ \A k \in 1..Len(ValidRepos) :
                  combined[k][4] = RepoFile(repository_paths[ValidRepos[k]])

----------------------------------------------------------------------------
(* The construction's properties *)

\* the dates that are written as YYYY-MM-DD
InForm == {"2021-01-01", "2021-01-02", "2999-01-01"}

\* a date configuration the constructor is to reject
InvalidDates(start, end) ==
    \/ start # None /\ start \notin InForm
    \/ end # None /\ end \notin InForm
    \/ start \in InForm /\ Strptime(start).days > Today
    \/ start \in InForm /\ end \in InForm /\ Strptime(end).days < Strptime(start).days

\* C21: the constructor raises for an end date before the start date, a start
\* date of the future and a date that is not written as YYYY-MM-DD, and makes no
\* temp_dir then; with an end date equal to the start date it constructs.
InvalidDatesAreRejected ==
    run_pc # "start" =>
        /\ InvalidDates(start_date, end_date) =>
              /\ run_pc \in {"raised", "end"}
              /\ raised = "ValueError"
              /\ ~temp_dir_exists
        /\ (start_date = end_date /\ start_date \in Dates) =>
              /\ run_pc \in {"constructed", "process"}
              /\ temp_dir_exists

----------------------------------------------------------------------------
(* The suggestions' properties *)

\* the pairs of a name asked about and a git name whose ratio, in lower case, is
\* above 0.6: jdo and janedoe, at 0.6, and jane and jdoe, at 0.5, are not
SimilarPairs ==
    { <<"jdoe", "jdoe">>, <<"jdoe", "janedoe">>, <<"janedoe", "jdoe">>,
      <<"janedoe", "janedoe">>, <<"JDoe", "jdoe">>, <<"JDoe", "janedoe">>,
      <<"jdo", "jdoe">>, <<"jane", "janedoe">> }

\* the git names of the store, in its order, that are similar to the name
SimilarInStore(git_name) ==
    LET names == [i \in 1..Len(user_mappings) |-> user_mappings[i].git_name]
    IN  SelectSeq(names, LAMBDA existing_name : <<git_name, existing_name>> \in SimilarPairs)

\* C22: suggest_similar_users returns the similar git names of the store in the
\* store's order and changes neither the store nor its document; an
\* add_user_mapping right after it maps, whatever was returned; and the map
\* command declines only with similar names, leaving the store as it was, and
\* maps whenever there is none.
SuggestIsPureAndNeverBlocks ==
    [][Step =>
        /\ last_call'.op = "suggest_similar_users" =>
              /\ similar_users' = SimilarInStore(last_call'.a1)
              /\ UNCHANGED <<instance, initialized, config_dir, data_dir, user_mappings,
                             config_files, avatar_files, mapped>>
        /\ (last_call.op = "suggest_similar_users" /\ last_call'.op = "add_user_mapping") =>
              /\ last_call'.result = "ok"
              /\ get_canonical_name(user_mappings', last_call'.a1) = last_call'.a2
              /\ AsDict(YamlLoad(config_files'[config_dir].doc)) = AsDict(user_mappings')
        /\ last_call'.op = "map" =>
              /\ SimilarInStore(last_call'.a1) = <<>> => last_call'.result = "mapped"
              /\ last_call'.result = "declined" =>
                    /\ SimilarInStore(last_call'.a1) # <<>>
                    /\ UNCHANGED <<user_mappings, config_files, avatar_files, mapped>>
              /\ last_call'.result = "mapped" =>
                    /\ get_canonical_name(user_mappings', last_call'.a1) = last_call'.a2
                    /\ AsDict(YamlLoad(config_files'[config_dir].doc)) =
                          AsDict(user_mappings')
      ]_vars

\* C22's case: with jdoe and janedoe mapped in this order, the suggestions for
\* jane were janedoe alone, and the mapping of jdoe made right after them holds.
MappedAfterSuggestionReached ==
    /\ Len(user_mappings) = 2
    /\ user_mappings[1].git_name = "jdoe"
    /\ prev_call = Call("suggest_similar_users", "jane", None, "ok")
    /\ similar_users = <<"janedoe">>
    /\ last_call = Call("add_user_mapping", "jdoe", "J. Doe", "ok")
    /\ user_mappings[1].canonical_name = "J. Doe"

----------------------------------------------------------------------------
(* The rendering step's properties *)

\* C23: whatever gource has to write, more than the pipe holds included, gource
\* and ffmpeg exit in the end and _generate_visualization returns or raises.
RenderingEnds ==
    <>(/\ render_pc \in {"returned", "raised"}
       /\ gource_state = "exited"
       /\ ffmpeg_state \in {"none", "exited"})

====
